---- MODULE Spec2Model ----
(***************************************************************************)
(* A model of the JavaScript/C++ rosetta-stone samples: the delegating     *)
(* object (Delegating_unordered_map, in its two versions), the mixed-type  *)
(* variadic fold (js_plus / plus_all) and the closures created in loops.   *)
(***************************************************************************)
EXTENDS Integers, Sequences, FiniteSets, TLC

VARIABLES
    impl,        \* which Delegating_unordered_map is compiled: "test" or "samples"
    sharedEnd,   \* whether end() of two distinct containers compare equal in this build
    own,         \* own[o]: the unordered_map<string, any> base of object o
    __proto__,   \* __proto__[o]: the prototype pointer of object o
    pre,         \* own as it was before the last operation
    last,        \* the last operation and what it returned
    nops,        \* number of operations performed so far
    arguments,   \* variadic_mixedtype: the vector<any> passed to plus_all
    result,      \* what plus_all returned
    foldpc,      \* "call" before plus_all is called, "done" after
    program,     \* which loop test runs: "by_value", "by_ref" or "both"
    limit,       \* the loop's bound (i < limit)
    mem,         \* storage cells; mem[i_addr] is the loop variable i
    functions_by_value,  \* vector<js_function> of closures capturing i by value
    functions_by_ref,    \* vector<js_function> of closures capturing i by reference
    cout,        \* the mock output stream
    pos,         \* for_each's position in the vector it walks
    looppc,      \* "loop", "call_by_value", "call_by_ref", "collect" or "done"
    heap_cells,  \* the cells my_heap owns (garbage_collection_test)
    call_body,   \* the function body of the last call
    call_this,   \* the this value the caller passed (NoArg when omitted)
    call_args,   \* the arguments the caller passed (NoArg when omitted)
    call_result, \* what the last call returned
    recv_this,   \* the this_ the function body received
    recv_args,   \* the arguments the function body received
    prev_this,   \* the this value of the call before the last
    prev_body,   \* the function body of the call before the last
    ncalls,      \* number of calls made so far
    heap,        \* garbage_collection::my_heap: the allocations, by handle
    locals,      \* handles held by local variables in scope
    functions,   \* vector<js_function> in scope: closures capturing a cell
    preheap,     \* heap as it was before the last operation
    lastop       \* the last heap operation

objvars == <<impl, sharedEnd, own, __proto__, pre, last, nops>>

foldvars == <<arguments, result, foldpc>>

loopvars == <<program, limit, mem, functions_by_value, functions_by_ref, cout, pos, looppc,
              heap_cells>>

thisvars == <<call_body, call_this, call_args, call_result, recv_this, recv_args,
              prev_this, prev_body, ncalls>>

heapvars == <<heap, locals, functions, preheap, lastop>>

vars == <<objvars, foldvars, loopvars, thisvars, heapvars>>

-----------------------------------------------------------------------------
(* boost::any: a type tag and the held value.  A string is the sequence of *)
(* its character codes.                                                    *)

Empty == [type |-> "void", num |-> 0, str |-> <<>>]

IntAny(n) == [type |-> "int", num |-> n, str |-> <<>>]

StrAny(s) == [type |-> "string", num |-> 0, str |-> s]

BoolAny(b) == [type |-> "bool", num |-> (IF b THEN 1 ELSE 0), str |-> <<>>]

-----------------------------------------------------------------------------
(* Bounds of the object model.                                             *)

MaxOps == 4

\* the objects of scope_chains_test; any of them may be linked to any other
Objs == {"global_environment", "f_environment", "g_environment"}

nullptr == "nullptr"

Keys == {"a", "b"}

PropVals == {IntAny(1), IntAny(2)}

-----------------------------------------------------------------------------
(* Iterators of unordered_map.  An iterator names the container node it    *)
(* points to.  end() is the null node in builds where every container      *)
(* shares the past-the-end value, and a per-container sentinel otherwise.   *)

EndKey == "<end>"

end(o) == [owner |-> IF sharedEnd THEN nullptr ELSE o, key |-> EndKey]

find(m, o, key) ==
    IF key \in DOMAIN m[o] THEN [owner |-> o, key |-> key] ELSE end(o)

\* found_value->second: dereferencing a past-the-end iterator is undefined
IsDereferenceable(it) == it.key # EndKey

-----------------------------------------------------------------------------
(* src/test/cpp: find_in_chain.  Returns the iterator and the number of    *)
(* objects visited.                                                        *)

\* returns the prototype's past-the-end iterator instead of its own end()
RECURSIVE find_in_chain_mut_noend(_, _, _)
find_in_chain_mut_noend(m, o, key) ==
    LET found_value == find(m, o, key) IN
    IF found_value # end(o) THEN [it |-> found_value, visited |-> 1]
    ELSE IF __proto__[o] # nullptr
         THEN LET r == find_in_chain_mut_noend(m, __proto__[o], key) IN
              [it |-> r.it, visited |-> r.visited + 1]
         ELSE [it |-> end(o), visited |-> 1]

\* asks the prototype before looking at the own properties
RECURSIVE find_in_chain_mut_protofirst(_, _, _)
find_in_chain_mut_protofirst(m, o, key) ==
    LET inproto == IF __proto__[o] # nullptr
                   THEN find_in_chain_mut_protofirst(m, __proto__[o], key)
                   ELSE [it |-> end(o), visited |-> 0] IN
    IF __proto__[o] # nullptr /\ inproto.it # end(__proto__[o])
    THEN [it |-> inproto.it, visited |-> inproto.visited + 1]
    ELSE [it |-> find(m, o, key), visited |-> inproto.visited + 1]

\* delegates a single hop: asks the prototype for an own property only
find_in_chain_mut_onehop(m, o, key) ==
    LET found_value == find(m, o, key) IN
    IF found_value # end(o) THEN [it |-> found_value, visited |-> 1]
    ELSE IF __proto__[o] # nullptr
         THEN LET fp == find(m, __proto__[o], key) IN
              IF fp # end(__proto__[o])
              THEN [it |-> fp, visited |-> 2]
              ELSE [it |-> end(o), visited |-> 2]
         ELSE [it |-> end(o), visited |-> 1]

RECURSIVE find_in_chain(_, _, _)
find_in_chain(m, o, key) ==
    LET found_value == find(m, o, key) IN
    IF found_value # end(o) THEN [it |-> found_value, visited |-> 1]
    ELSE IF __proto__[o] # nullptr
         THEN LET r == find_in_chain(m, __proto__[o], key) IN
              IF r.it # end(__proto__[o])
              THEN [it |-> r.it, visited |-> r.visited + 1]
              ELSE [it |-> end(o), visited |-> r.visited + 1]
         ELSE [it |-> end(o), visited |-> 1]

\* unordered_map<string, any>::operator[]: creates an empty any when missing
base_subscript(m, o, key) ==
    IF key \in DOMAIN m[o] THEN m
    ELSE [m EXCEPT ![o] = (key :> Empty) @@ @]

\* creates a missing key on the object that ends the chain, not on the receiver
RECURSIVE subscript_test_mut_rootinsert(_, _, _)
subscript_test_mut_rootinsert(m, o, key) ==
    LET r == find_in_chain(m, o, key) IN
    IF r.it # end(o)
    THEN [ref |-> r.it, map |-> m, visited |-> r.visited,
          undefined |-> ~IsDereferenceable(r.it)]
    ELSE IF __proto__[o] # nullptr
         THEN subscript_test_mut_rootinsert(m, __proto__[o], key)
         ELSE [ref |-> [owner |-> o, key |-> key], map |-> base_subscript(m, o, key),
               visited |-> r.visited, undefined |-> FALSE]

\* src/test/cpp: Delegating_unordered_map::operator[]
\* ref is the element the returned any& refers to; undefined when the
\* iterator dereferenced is a past-the-end iterator.
subscript_test(m, o, key) ==
    LET r == find_in_chain(m, o, key) IN
    IF r.it # end(o)
    THEN [ref |-> r.it, map |-> m, visited |-> r.visited,
          undefined |-> ~IsDereferenceable(r.it)]
    ELSE [ref |-> [owner |-> o, key |-> key], map |-> base_subscript(m, o, key),
          visited |-> r.visited, undefined |-> FALSE]

\* src/cpp_samples_test: Delegating_unordered_map::operator[] (recursive)
RECURSIVE subscript_samples(_, _, _)
subscript_samples(m, o, key) ==
    LET found_value == find(m, o, key) IN
    IF found_value # end(o)
    THEN [ref |-> found_value, map |-> m, visited |-> 1, undefined |-> FALSE]
    ELSE IF __proto__[o] # nullptr
         THEN LET r == subscript_samples(m, __proto__[o], key) IN
              [r EXCEPT !.visited = @ + 1]
         ELSE [ref |-> [owner |-> o, key |-> key], map |-> base_subscript(m, o, key),
               visited |-> 1, undefined |-> FALSE]

\* never consults the prototype chain: plain unordered_map::operator[]
subscript_mut_ownonly(m, o, key) ==
    [ref |-> [owner |-> o, key |-> key], map |-> base_subscript(m, o, key),
     visited |-> 1, undefined |-> FALSE]

subscript(m, o, key) ==
    IF impl = "test" THEN subscript_test(m, o, key) ELSE subscript_samples(m, o, key)

-----------------------------------------------------------------------------
(* The prototype chain of o, nearest first, for stating the claims.        *)

RECURSIVE Chain(_)
Chain(o) == IF o = nullptr THEN <<>> ELSE <<o>> \o Chain(__proto__[o])

ChainSet(o) == {Chain(o)[i] : i \in 1..Len(Chain(o))}

-----------------------------------------------------------------------------
(* Operations on objects.                                                  *)

NoOp == [op |-> "none", obj |-> nullptr, key |-> "", val |-> Empty,
         result |-> Empty, visited |-> 0, undefined |-> FALSE]

InitObjects ==
    /\ impl \in {"test", "samples"}
    /\ sharedEnd \in BOOLEAN
    \* only find_in_chain compares iterators of two containers
    /\ impl = "samples" => sharedEnd
    /\ own = [o \in Objs |-> <<>>]
    /\ __proto__ = [o \in Objs |-> nullptr]
    /\ pre = own
    /\ last = NoOp
    /\ nops = 0

\* any x = o[key];
Get(o, key) ==
    /\ nops < MaxOps
    /\ LET r == subscript(own, o, key) IN
       /\ own' = r.map
       /\ last' = [op |-> "get", obj |-> o, key |-> key, val |-> Empty,
                   result |-> IF r.undefined THEN Empty ELSE r.map[r.ref.owner][r.ref.key],
                   visited |-> r.visited, undefined |-> r.undefined]
    /\ pre' = own
    /\ nops' = nops + 1
    /\ UNCHANGED <<impl, sharedEnd, __proto__, foldvars, loopvars, thisvars, heapvars>>

\* operator[] returning any by value: the assignment writes a temporary
Set_mut_byvalue(o, key, v) ==
    /\ nops < MaxOps
    /\ LET r == subscript(own, o, key) IN
       /\ own' = r.map
       /\ last' = [op |-> "set", obj |-> o, key |-> key, val |-> v,
                   result |-> v, visited |-> r.visited, undefined |-> r.undefined]
    /\ pre' = own
    /\ nops' = nops + 1
    /\ UNCHANGED <<impl, sharedEnd, __proto__, foldvars, loopvars, thisvars, heapvars>>

\* the own maps after o[key] = v: v is written through the reference that
\* operator[] returns
assign(m, o, key, v) ==
    LET r == subscript(m, o, key) IN
    IF r.undefined THEN r.map
    ELSE [r.map EXCEPT ![r.ref.owner] = (r.ref.key :> v) @@ @]

\* o[key] = v;
Set(o, key, v) ==
    /\ nops < MaxOps
    /\ LET r == subscript(own, o, key) IN
       /\ own' = assign(own, o, key, v)
       /\ last' = [op |-> "set", obj |-> o, key |-> key, val |-> v,
                   result |-> v, visited |-> r.visited, undefined |-> r.undefined]
    /\ pre' = own
    /\ nops' = nops + 1
    /\ UNCHANGED <<impl, sharedEnd, __proto__, foldvars, loopvars, thisvars, heapvars>>

\* o.__proto__ = &p;  (chains are acyclic by construction)
SetProto(o, p) ==
    /\ nops < MaxOps
    /\ p \in Objs
    /\ o \notin ChainSet(p)
    /\ __proto__' = [__proto__ EXCEPT ![o] = p]
    /\ last' = [NoOp EXCEPT !.op = "proto", !.obj = o]
    /\ pre' = own
    /\ nops' = nops + 1
    /\ UNCHANGED <<impl, sharedEnd, own, foldvars, loopvars, thisvars, heapvars>>

\* the state of the parts a specification does not run
IdleObjects ==
    /\ impl = "test"
    /\ sharedEnd = TRUE
    /\ own = [o \in Objs |-> <<>>]
    /\ __proto__ = [o \in Objs |-> nullptr]
    /\ pre = own
    /\ last = NoOp
    /\ nops = 0

IdleFold ==
    /\ arguments = <<>>
    /\ result = Empty
    /\ foldpc = "idle"

IdleLoop ==
    /\ program = "none"
    /\ limit = 0
    /\ mem = <<>>
    /\ functions_by_value = <<>>
    /\ functions_by_ref = <<>>
    /\ cout = <<>>
    /\ pos = 1
    /\ looppc = "idle"
    /\ heap_cells = {}

\* no this value passed: operator() takes its default argument
NoArg == [type |-> "omitted", num |-> 0, str |-> <<>>]

IdleThis ==
    /\ call_body = "none"
    /\ call_this = NoArg
    /\ call_args = <<>>
    /\ call_result = Empty
    /\ recv_this = Empty
    /\ recv_args = <<>>
    /\ prev_this = NoArg
    /\ prev_body = "none"
    /\ ncalls = 0

\* the handles my_heap can hand out, in this order
Handles == <<"A", "B", "C">>

HandleSet == {Handles[k] : k \in 1..Len(Handles)}

Unallocated == [state |-> "unallocated", managed |-> TRUE, proto |-> nullptr, prop |-> nullptr]

IdleHeap ==
    /\ heap = [h \in HandleSet |-> Unallocated]
    /\ locals = {}
    /\ functions = {}
    /\ preheap = heap
    /\ lastop = "none"

Init == InitObjects /\ IdleFold /\ IdleLoop /\ IdleThis /\ IdleHeap

Next ==
    \/ \E o \in Objs, key \in Keys : Get(o, key)
    \/ \E o \in Objs, key \in Keys, v \in PropVals : Set(o, key, v)
    \/ \E o \in Objs, p \in Objs : SetProto(o, p)

Spec == Init /\ [][Next]_vars

-----------------------------------------------------------------------------
(* Vocabulary of the claims about objects.  The chain is read in the state *)
(* the last operation started from (pre); Get and Set leave __proto__      *)
(* unchanged.                                                              *)

DefinerIdx(m, o, key) == {i \in 1..Len(Chain(o)) : key \in DOMAIN m[Chain(o)[i]]}

Defined(m, o, key) == DefinerIdx(m, o, key) # {}

Nearest(m, o, key) ==
    Chain(o)[CHOOSE i \in DefinerIdx(m, o, key) : \A j \in DefinerIdx(m, o, key) : i <= j]

Ancestors(o) == ChainSet(o) \ {o}

\* what a read o[key] yields in the state with own maps m
Read(m, o, key) ==
    LET r == subscript(m, o, key) IN
    IF r.undefined THEN [type |-> "undefined", num |-> 0, str |-> <<>>]
    ELSE r.map[r.ref.owner][r.ref.key]

\* C1: a get of a key that the receiver and its prototype both own returns
\* the receiver's own value (and in general an own property always wins).
C1_OwnPropertyPrecedence ==
    (last.op = "get" /\ last.key \in DOMAIN pre[last.obj])
        => (~last.undefined /\ last.result = pre[last.obj][last.key])

C1_Witness ==
    /\ last.op = "get"
    /\ __proto__[last.obj] # nullptr
    /\ last.key \in DOMAIN pre[last.obj]
    /\ last.key \in DOMAIN pre[__proto__[last.obj]]
    /\ pre[__proto__[last.obj]][last.key] # pre[last.obj][last.key]
    /\ last.result = pre[last.obj][last.key]

\* C2: a get returns the value held by the nearest object of the chain that
\* owns the key, and the empty any when no object of the chain owns it.
C2_DelegationDepth ==
    last.op = "get" =>
        /\ ~last.undefined
        /\ last.result = IF Defined(pre, last.obj, last.key)
                         THEN pre[Nearest(pre, last.obj, last.key)][last.key]
                         ELSE Empty

C2_Witness ==
    /\ last.op = "get"
    /\ Len(Chain(last.obj)) = 3
    /\ DefinerIdx(pre, last.obj, last.key) = {3}
    /\ last.result = pre[Chain(last.obj)[3]][last.key]
    /\ last.result # Empty

\* C3: a get of a key that no object of a null-terminated chain of n objects
\* owns visits at most n objects and returns the empty any, without error.
C3_LookupTerminates ==
    (last.op = "get" /\ ~Defined(pre, last.obj, last.key))
        => /\ ~last.undefined
           /\ last.result = Empty
           /\ last.visited <= Len(Chain(last.obj))

C3_Witness ==
    /\ last.op = "get"
    /\ ~Defined(pre, last.obj, last.key)
    /\ Len(Chain(last.obj)) = 3
    /\ last.visited = 3
    /\ last.result = Empty

SetThroughAncestor ==
    /\ last.op = "set"
    /\ last.key \notin DOMAIN pre[last.obj]
    /\ Defined(pre, last.obj, last.key)

\* C4 as stated: an assignment O[K] = v, K owned by an ancestor P and not by
\* O, creates K on O and leaves the own mapping of every ancestor unchanged.
C4_SetNeverMutatesPrototype ==
    SetThroughAncestor =>
        /\ last.key \in DOMAIN own[last.obj]
        /\ own[last.obj][last.key] = last.val
        /\ \A p \in Ancestors(last.obj) : own[p] = pre[p]

\* C4 amended: the assignment overwrites the value of K held by the nearest
\* ancestor P that owns K; O gets no own property, and every other object
\* and every other key of P is unchanged.
C4_SetWritesNearestOwner ==
    SetThroughAncestor =>
        LET P == Nearest(pre, last.obj, last.key) IN
        /\ ~last.undefined
        /\ P \in Ancestors(last.obj)
        /\ own[P] = (last.key :> last.val) @@ pre[P]
        /\ last.key \notin DOMAIN own[last.obj]
        /\ \A x \in Objs \ {P} : own[x] = pre[x]

C4_Witness ==
    /\ SetThroughAncestor
    /\ own[Nearest(pre, last.obj, last.key)][last.key] = last.val
    /\ pre[Nearest(pre, last.obj, last.key)][last.key] # last.val
    /\ pre[Nearest(pre, last.obj, last.key)][last.key] # Empty

\* C5: an assignment through a scope frame to a variable defined in an
\* enclosing frame updates that frame's binding: a read from the defining
\* frame, and from every frame between it and the assigning frame, yields
\* the assigned value afterwards.
C5_ScopeWriteThrough ==
    SetThroughAncestor =>
        LET c == Chain(last.obj)
            d == CHOOSE i \in 1..Len(c) : c[i] = Nearest(pre, last.obj, last.key) IN
        \A i \in 2..d : Read(own, c[i], last.key) = last.val

C5_Witness ==
    /\ SetThroughAncestor
    /\ Chain(last.obj) = <<"g_environment", "f_environment", "global_environment">>
    /\ Nearest(pre, last.obj, last.key) = "global_environment"
    /\ pre["global_environment"][last.key] # last.val
    /\ Read(own, "f_environment", last.key) = last.val
    /\ Read(own, "global_environment", last.key) = last.val

FirstAssignment ==
    /\ last.op = "set"
    /\ ~Defined(pre, last.obj, last.key)

C7_AssignmentCreatesOnReceiver ==
    (impl = "samples" /\ FirstAssignment) =>
        /\ last.key \in DOMAIN own[last.obj]
        /\ own[last.obj][last.key] = last.val
        /\ \A f \in Ancestors(last.obj) :
              last.key \notin DOMAIN own[f] /\ Read(own, f, last.key) = Empty

\* C17: a get of a key that no object of the receiver's chain defines
\* leaves every later get as it would have been; when the key is then set
\* on the receiver's prototype to v, a get on the receiver returns v.
C17_MissingReadIsPure ==
    (/\ last.op = "get"
     /\ ~last.undefined
     /\ ~Defined(pre, last.obj, last.key)
     /\ __proto__[last.obj] # nullptr) =>
        \A v \in PropVals :
            Read(assign(own, __proto__[last.obj], last.key, v), last.obj, last.key) = v

-----------------------------------------------------------------------------
(* js_plus and variadic_mixedtype::plus_all.                               *)

MaxLen == 4

\* thrown by any_cast when the held type is not the requested one
BadAnyCast == [type |-> "bad_any_cast", num |-> 0, str |-> <<>>]

\* signed overflow of int addition: undefined behaviour
IntOverflow == [type |-> "undefined", num |-> 0, str |-> <<>>]

IsException(x) == x.type \in {"bad_any_cast", "undefined"}

\* whether a + b leaves the range of a 32-bit int
AddOverflows(a, b) ==
    \/ b > 0 /\ a > 2147483647 - b
    \/ b < 0 /\ a < (-2147483647 - 1) - b

\* std::to_string(int): the decimal digits as character codes, '-' first
RECURSIVE Digits(_)
Digits(k) == IF k < 10 THEN <<48 + k>> ELSE Digits(k \div 10) \o <<48 + (k % 10)>>

to_string(k) == IF k < 0 THEN <<45>> \o Digits(0 - k) ELSE Digits(k)

\* the operand of js_plus as a string, or the exception any_cast<int> throws
AsString(x) ==
    IF x.type # "string"
    THEN (IF x.type = "int" THEN StrAny(to_string(x.num)) ELSE BadAnyCast)
    ELSE x

\* checks the right operand only before choosing concatenation
js_plus_mut_rvalonly(lval, rval) ==
    IF rval.type = "string"
    THEN LET lval_str == AsString(lval)
             rval_str == AsString(rval) IN
         IF IsException(lval_str) THEN lval_str
         ELSE IF IsException(rval_str) THEN rval_str
         ELSE StrAny(lval_str.str \o rval_str.str)
    ELSE IF lval.type # "int" \/ rval.type # "int" THEN BadAnyCast
    ELSE IF AddOverflows(lval.num, rval.num) THEN IntOverflow
    ELSE IntAny(lval.num + rval.num)

\* converts an operand that is neither int nor string to 0 or to ""
js_plus_mut_coerce(lval, rval) ==
    LET l == IF lval.type \in {"int", "string"} THEN lval ELSE IntAny(0)
        r == IF rval.type \in {"int", "string"} THEN rval ELSE IntAny(0) IN
    IF l.type = "string" \/ r.type = "string"
    THEN StrAny(AsString(l).str \o AsString(r).str)
    ELSE IF AddOverflows(l.num, r.num) THEN IntOverflow
    ELSE IntAny(l.num + r.num)

js_plus(lval, rval) ==
    IF lval.type = "string" \/ rval.type = "string"
    THEN LET lval_str == AsString(lval)
             rval_str == AsString(rval) IN
         IF IsException(lval_str) THEN lval_str
         ELSE IF IsException(rval_str) THEN rval_str
         ELSE StrAny(lval_str.str \o rval_str.str)
    ELSE IF lval.type # "int" \/ rval.type # "int" THEN BadAnyCast
    ELSE IF AddOverflows(lval.num, rval.num) THEN IntOverflow
    ELSE IntAny(lval.num + rval.num)

\* std::accumulate(first, last, init, op): a left fold; an exception thrown
\* by op ends it
RECURSIVE accumulate(_, _)
accumulate(args, init) ==
    IF args = <<>> \/ IsException(init) THEN init
    ELSE accumulate(Tail(args), js_plus(init, Head(args)))

\* folds from the right end of the arguments
RECURSIVE accumulate_right(_, _)
accumulate_right(args, init) ==
    IF args = <<>> \/ IsException(init) THEN init
    ELSE accumulate_right(SubSeq(args, 1, Len(args) - 1), js_plus(init, args[Len(args)]))

plus_all_mut_right(args) == accumulate_right(args, IntAny(0))

plus_all(args) == accumulate(args, IntAny(0))

\* the arguments of variadic_mixedtype_test: 4, 8, "!", 15, 16, 23, 42
TestArguments ==
    <<IntAny(4), IntAny(8), StrAny(<<33>>), IntAny(15), IntAny(16), IntAny(23), IntAny(42)>>

\* an any holding a double such as 3.14; its value plays no part
DoubleAny == [type |-> "double", num |-> 0, str |-> <<>>]

\* an any holding a js_object_ref
HandleAny == [type |-> "js_object_ref", num |-> 0, str |-> <<>>]

Elems ==
    {IntAny(0), IntAny(4), IntAny(8), IntAny(15), IntAny(-3),
     StrAny(<<33>>), StrAny(<<>>), BoolAny(TRUE), Empty, DoubleAny, HandleAny}

InitArguments ==
    /\ arguments \in UNION {[1..len -> Elems] : len \in 0..MaxLen} \cup {TestArguments}
    /\ result = Empty
    /\ foldpc = "call"

\* result = plus_all(arguments);
PlusAll ==
    /\ foldpc = "call"
    /\ result' = plus_all(arguments)
    /\ foldpc' = "done"
    /\ UNCHANGED <<arguments, objvars, loopvars, thisvars, heapvars>>

NextFold == PlusAll

InitFold == IdleObjects /\ InitArguments /\ IdleLoop /\ IdleThis /\ IdleHeap

SpecFold == InitFold /\ [][NextFold]_vars

(* Vocabulary of the claim about the fold.                                 *)

IntsAndStrs(args) == \A k \in 1..Len(args) : args[k].type \in {"int", "string"}

\* index of the first string of args, Len(args) + 1 when there is none
FirstStr(args) ==
    IF \E k \in 1..Len(args) : args[k].type = "string"
    THEN CHOOSE k \in 1..Len(args) :
            args[k].type = "string" /\ \A j \in 1..(k - 1) : args[j].type = "int"
    ELSE Len(args) + 1

RECURSIVE SumOf(_)
SumOf(args) == IF args = <<>> THEN 0 ELSE Head(args).num + SumOf(Tail(args))

Rendering(x) == IF x.type = "int" THEN to_string(x.num) ELSE x.str

RECURSIVE Renderings(_)
Renderings(args) ==
    IF args = <<>> THEN <<>> ELSE Rendering(Head(args)) \o Renderings(Tail(args))

\* "12!15162342"
TestResult == StrAny(<<49, 50, 33, 49, 53, 49, 54, 50, 51, 52, 50>>)

\* C8: for a sequence of Int and Str values plus_all returns the Int sum when
\* there is no Str, and otherwise the decimal rendering of the sum of the
\* integers before the first Str followed by the renderings of every later
\* element; the test's arguments give "12!15162342".
C8_MixedTypeFold ==
    (foldpc = "done" /\ IntsAndStrs(arguments)) =>
        LET f == FirstStr(arguments)
            front == SubSeq(arguments, 1, f - 1)
            back == SubSeq(arguments, f, Len(arguments)) IN
        /\ result = IF f > Len(arguments) THEN IntAny(SumOf(arguments))
                    ELSE StrAny(to_string(SumOf(front)) \o Renderings(back))
        /\ arguments = TestArguments => result = TestResult

C8_Witness ==
    /\ foldpc = "done"
    /\ arguments = TestArguments
    /\ result = TestResult

(* Vocabulary of the claim about a mismatched operand.                     *)

Mismatched(x) == x.type \notin {"int", "string"}

\* C15: js_plus applied to an operand that holds neither an int nor a
\* string ends in bad_any_cast, never in a sum or a concatenation, and so
\* does the fold that meets such an argument; no object is changed.
C15_TypeMismatchObservable ==
    foldpc = "done" =>
        /\ (\E k \in 1..Len(arguments) : Mismatched(arguments[k])) => result = BadAnyCast
        /\ \A x \in {e \in Elems : Mismatched(e)} : \A y \in Elems :
              js_plus(x, y) = BadAnyCast /\ js_plus(y, x) = BadAnyCast
        /\ IdleObjects

C15_Witness ==
    /\ foldpc = "done"
    /\ Len(arguments) = 3
    /\ arguments[1] = IntAny(4)
    /\ arguments[2] = StrAny(<<33>>)
    /\ arguments[3] = DoubleAny
    /\ result = BadAnyCast
    /\ IdleObjects

-----------------------------------------------------------------------------
(* Closures created in a loop: closures_in_loop_test and                   *)
(* closures_byref_in_loop_test of cpp_samples_test ("by_value", "by_ref")  *)
(* and closures_in_loop_test of test/cpp, which pushes both kinds in one   *)
(* loop ("both").                                                          *)

MaxLimit == 5

\* the storage of the loop variable: auto i = 0, or auto& i = *(new int{0})
i_addr == 1

\* [i]: the lambda stores a copy of i
capture_by_value_mut_ref(addr) == [kind |-> "ref", snap |-> 0, ref |-> addr]

capture_by_value(addr) == [kind |-> "value", snap |-> mem[addr], ref |-> 0]

\* [&i]: the lambda stores a reference to i
capture_by_ref_mut_value(addr) ==
    [kind |-> "value", snap |-> (IF addr \in DOMAIN mem THEN mem[addr] ELSE 0), ref |-> 0]

capture_by_ref(addr) == [kind |-> "ref", snap |-> 0, ref |-> addr]

\* captures the address of the cell instead of a copy of the handle
capture_handle_mut_raw(addr) == [kind |-> "ref", snap |-> 0, ref |-> addr]

\* [i_copy], i_copy a deferred_ptr<int>: the lambda stores a copy of the handle
capture_handle(addr) == [kind |-> "handle", snap |-> 0, ref |-> addr]

\* new int{v}, my_heap.make<int>(v): a fresh cell holding v; its address is
\* the length of the storage returned.  The mutant hands out one cell again.
new_int_mut_reuse(m, v) == IF Len(m) >= 2 THEN [m EXCEPT ![2] = v] ELSE Append(m, v)

new_int(m, v) == Append(m, v)

\* fn(): the body writes the captured i to cout
body_output(fn) == IF fn.kind = "value" THEN fn.snap ELSE mem[fn.ref]

InitClosures ==
    /\ program \in {"by_value", "by_ref", "both", "peritercopy", "gc"}
    /\ limit \in 0..MaxLimit
    /\ mem = <<0>>
    /\ functions_by_value = <<>>
    /\ functions_by_ref = <<>>
    /\ cout = <<>>
    /\ pos = 1
    /\ looppc = "loop"
    /\ heap_cells = {}

\* one iteration of the for loop: push the closure(s), then ++i
LoopBody ==
    /\ looppc = "loop"
    /\ program \in {"by_value", "by_ref", "both"}
    /\ mem[i_addr] < limit
    /\ functions_by_value' =
          IF program \in {"by_value", "both"}
          THEN Append(functions_by_value, capture_by_value(i_addr))
          ELSE functions_by_value
    /\ functions_by_ref' =
          IF program \in {"by_ref", "both"}
          THEN Append(functions_by_ref, capture_by_ref(i_addr))
          ELSE functions_by_ref
    /\ mem' = [mem EXCEPT ![i_addr] = @ + 1]
    /\ UNCHANGED <<heap_cells, program, limit, cout, pos, looppc, objvars, foldvars, thisvars, heapvars>>

\* one iteration with a per-iteration copy of i: auto& i_copy = *(new int{i})
\* captured by reference, or auto i_copy = my_heap.make<int>(i) captured as
\* a deferred_ptr; then ++i
LoopBodyCopy ==
    /\ looppc = "loop"
    /\ program \in {"peritercopy", "gc"}
    /\ mem[i_addr] < limit
    /\ LET allocated == new_int(mem, mem[i_addr])
           i_copy == Len(allocated) IN
       /\ mem' = [allocated EXCEPT ![i_addr] = @ + 1]
       /\ functions_by_ref' =
             Append(functions_by_ref,
                    IF program = "gc" THEN capture_handle(i_copy) ELSE capture_by_ref(i_copy))
       /\ heap_cells' = IF program = "gc" THEN heap_cells \cup {i_copy} ELSE heap_cells
    /\ UNCHANGED <<program, limit, functions_by_value, cout, pos, looppc,
                   objvars, foldvars, thisvars, heapvars>>

\* the loop condition i < limit fails
LoopExit ==
    /\ looppc = "loop"
    /\ ~(mem[i_addr] < limit)
    /\ looppc' = "call_by_value"
    /\ pos' = 1
    /\ UNCHANGED <<heap_cells, program, limit, mem, functions_by_value, functions_by_ref, cout,
                   objvars, foldvars, thisvars, heapvars>>

\* for_each over functions_by_value: call a copy of the next closure
CallByValue ==
    /\ looppc = "call_by_value"
    /\ pos <= Len(functions_by_value)
    /\ cout' = Append(cout, body_output(functions_by_value[pos]))
    /\ pos' = pos + 1
    /\ UNCHANGED <<heap_cells, program, limit, mem, functions_by_value, functions_by_ref, looppc,
                   objvars, foldvars, thisvars, heapvars>>

ForEachByValueEnd ==
    /\ looppc = "call_by_value"
    /\ pos > Len(functions_by_value)
    /\ looppc' = "call_by_ref"
    /\ pos' = 1
    /\ UNCHANGED <<heap_cells, program, limit, mem, functions_by_value, functions_by_ref, cout,
                   objvars, foldvars, thisvars, heapvars>>

\* for_each over functions_by_ref
CallByRef ==
    /\ looppc = "call_by_ref"
    /\ pos <= Len(functions_by_ref)
    /\ cout' = Append(cout, body_output(functions_by_ref[pos]))
    /\ pos' = pos + 1
    /\ UNCHANGED <<heap_cells, program, limit, mem, functions_by_value, functions_by_ref, looppc,
                   objvars, foldvars, thisvars, heapvars>>

ForEachByRefEnd ==
    /\ looppc = "call_by_ref"
    /\ pos > Len(functions_by_ref)
    /\ looppc' = IF program = "gc" THEN "collect" ELSE "done"
    /\ UNCHANGED <<heap_cells, program, limit, mem, functions_by_value, functions_by_ref, cout, pos,
                   objvars, foldvars, thisvars, heapvars>>

\* my_heap.collect(): the cells no deferred_ptr in scope refers to are
\* destroyed; the deferred_ptrs in scope are those the closures of the
\* functions vector hold
CollectCells ==
    /\ looppc = "collect"
    /\ heap_cells' = {a \in heap_cells :
                        \E k \in 1..Len(functions_by_ref) :
                           /\ functions_by_ref[k].kind = "handle"
                           /\ functions_by_ref[k].ref = a}
    /\ looppc' = "done"
    /\ UNCHANGED <<program, limit, mem, functions_by_value, functions_by_ref, cout, pos,
                   objvars, foldvars, thisvars, heapvars>>

NextLoop ==
    \/ LoopBody
    \/ LoopBodyCopy
    \/ CollectCells
    \/ LoopExit
    \/ CallByValue
    \/ ForEachByValueEnd
    \/ CallByRef
    \/ ForEachByRefEnd

InitLoop == IdleObjects /\ IdleFold /\ InitClosures /\ IdleThis /\ IdleHeap

SpecLoop == InitLoop /\ [][NextLoop]_vars

\* C9: the closures capturing i by value, called in creation order after the
\* loop, write 0, 1, ..., limit-1 (0,1,2,3,4 for limit 5), whatever i became.
C9_CaptureByValue ==
    (looppc = "done" /\ program \in {"by_value", "both"}) =>
        /\ Len(cout) >= limit
        /\ SubSeq(cout, 1, limit) = [k \in 1..limit |-> k - 1]
        /\ program = "by_value" => Len(cout) = limit

C9_Witness ==
    /\ looppc = "done"
    /\ program = "by_value"
    /\ limit = 5
    /\ mem[i_addr] = 5
    /\ cout = <<0, 1, 2, 3, 4>>

\* C10: the closures capturing a reference to the one cell i, called after
\* the loop, all write the cell's final value: limit, limit times
\* (5,5,5,5,5 for limit 5).
C10_CaptureByReference ==
    (looppc = "done" /\ program \in {"by_ref", "both"}) =>
        LET skip == IF program = "both" THEN limit ELSE 0 IN
        /\ Len(cout) = skip + limit
        /\ SubSeq(cout, skip + 1, skip + limit) = [k \in 1..limit |-> limit]

C10_Witness ==
    /\ looppc = "done"
    /\ program = "by_ref"
    /\ limit = 5
    /\ cout = <<5, 5, 5, 5, 5>>

\* C11: in the loops that allocate a fresh cell per iteration (new int{i},
\* my_heap.make<int>(i)) the k-th closure refers to a cell of its own that
\* still holds k-1, the cells are pairwise distinct and none is the loop
\* variable; called in creation order the closures write 0, 1, ..., limit-1.
C11_PerIterationCell ==
    program \in {"peritercopy", "gc"} =>
        /\ \A k \in 1..Len(functions_by_ref) :
              /\ functions_by_ref[k].kind = (IF program = "gc" THEN "handle" ELSE "ref")
              /\ functions_by_ref[k].ref # i_addr
              /\ mem[functions_by_ref[k].ref] = k - 1
              /\ \A j \in 1..Len(functions_by_ref) :
                    j # k => functions_by_ref[j].ref # functions_by_ref[k].ref
        /\ looppc = "done" => cout = [k \in 1..limit |-> k - 1]

C11_Witness ==
    /\ program = "gc"
    /\ looppc = "done"
    /\ limit = 5
    /\ Len(functions_by_ref) = 5
    /\ cout = <<0, 1, 2, 3, 4>>

-----------------------------------------------------------------------------
(* this_::add, the function bodies given to js_function, and               *)
(* Callable_delegating_unordered_map::operator().                          *)

MaxCalls == 2

\* the js_objects passed as this: o {{"a", 1}, {"b", 3}} of this_test, an
\* object with other values and one that lacks "b"
ThisObjects ==
    << [a |-> IntAny(1), b |-> IntAny(3)],
       [a |-> IntAny(2), b |-> IntAny(5)],
       [a |-> IntAny(1)] >>

\* an any holding a copy of ThisObjects[k]
ObjAny(k) == [type |-> "js_object", num |-> k, str |-> <<>>]

\* square(nullptr, {4}): an any holding nullptr
NullptrAny == [type |-> "nullptr_t", num |-> 0, str |-> <<>>]

\* vector::operator[] past the end, int overflow: undefined behaviour
Undefined == [type |-> "undefined", num |-> 0, str |-> <<>>]

\* any_cast<js_object>(this_)[key]: operator[] on the copy; a missing key
\* yields the empty any
this_property(this_, key) ==
    IF key \in DOMAIN ThisObjects[this_.num] THEN ThisObjects[this_.num][key] ELSE Empty

\* keeps the this of the call before instead of the one passed
add_mut_retained(this_, args) ==
    LET bound == IF call_this.type = "js_object" THEN call_this ELSE this_ IN
    IF Len(args) < 2 THEN Undefined
    ELSE IF bound.type # "js_object" THEN BadAnyCast
    ELSE IF \E x \in {this_property(bound, "a"), this_property(bound, "b"),
                      args[1], args[2]} : x.type # "int"
         THEN BadAnyCast
    ELSE IntAny(this_property(bound, "a").num + this_property(bound, "b").num
                + args[1].num + args[2].num)

\* this_::add: this_["a"] + this_["b"] + args[0] + args[1]
add(this_, args) ==
    IF Len(args) < 2 THEN Undefined
    ELSE IF this_.type # "js_object" THEN BadAnyCast
    ELSE IF \E x \in {this_property(this_, "a"), this_property(this_, "b"),
                      args[1], args[2]} : x.type # "int"
         THEN BadAnyCast
    ELSE IntAny(this_property(this_, "a").num + this_property(this_, "b").num
                + args[1].num + args[2].num)

\* the body of square: args[0] * args[0]
square(this_, args) ==
    IF Len(args) < 1 THEN Undefined
    ELSE IF args[1].type # "int" THEN BadAnyCast
    ELSE IF args[1].num > 46340 \/ args[1].num < -46340 THEN Undefined
    ELSE IntAny(args[1].num * args[1].num)

\* the bodies of f and g in scope_chains_test use neither this_ nor
\* args and return any{}
scope_body(this_, args) == Empty

function_body_(body, this_, args) ==
    CASE body = "add" -> add(this_, args)
      [] body = "square" -> square(this_, args)
      [] body = "scope" -> scope_body(this_, args)

\* passes a global object when the caller gives no this
default_this_mut_global(passed) == IF passed = NoArg THEN ObjAny(1) ELSE passed

\* operator()(any this_ = {}, ...): the default argument is an empty any
default_this(passed) == IF passed = NoArg THEN Empty ELSE passed

ThisValues == {ObjAny(k) : k \in 1..Len(ThisObjects)} \cup {NullptrAny, Empty}

ArgValues == {IntAny(5), IntAny(7), StrAny(<<33>>)}

ArgumentLists == UNION {[1..len -> ArgValues] : len \in 0..2}

\* add(o, {5, 7}): the function called directly, this passed first
CallAdd(passed, args) ==
    /\ ncalls < MaxCalls
    /\ call_body' = "add"
    /\ call_this' = passed
    /\ call_args' = args
    /\ recv_this' = passed
    /\ recv_args' = args
    /\ call_result' = add(passed, args)
    /\ prev_this' = call_this
    /\ prev_body' = call_body
    /\ ncalls' = ncalls + 1
    /\ UNCHANGED <<objvars, foldvars, loopvars, heapvars>>

\* fn(this_, args), fn(this_), fn(): operator() hands both to function_body_
CallFunction(body, passed, args) ==
    /\ ncalls < MaxCalls
    /\ passed = NoArg => args = <<>>
    /\ call_body' = body
    /\ call_this' = passed
    /\ call_args' = args
    /\ recv_this' = default_this(passed)
    /\ recv_args' = args
    /\ call_result' = function_body_(body, default_this(passed), args)
    /\ prev_this' = call_this
    /\ prev_body' = call_body
    /\ ncalls' = ncalls + 1
    /\ UNCHANGED <<objvars, foldvars, loopvars, heapvars>>

NextThis ==
    \/ \E passed \in ThisValues, args \in ArgumentLists : CallAdd(passed, args)
    \/ \E body \in {"add", "square", "scope"}, passed \in ThisValues \cup {NoArg},
          args \in ArgumentLists : CallFunction(body, passed, args)

InitCalls == IdleObjects /\ IdleFold /\ IdleLoop /\ IdleThis /\ IdleHeap

SpecThis == InitCalls /\ [][NextThis]_vars

\* a + b + x + y for receiver k and the first two args
ExpectedAdd(k, args) ==
    ThisObjects[k]["a"].num + ThisObjects[k]["b"].num + args[1].num + args[2].num

WellTypedAdd ==
    /\ call_body = "add"
    /\ call_this.type = "js_object"
    /\ {"a", "b"} \subseteq DOMAIN ThisObjects[call_this.num]
    /\ Len(call_args) >= 2
    /\ call_args[1].type = "int"
    /\ call_args[2].type = "int"

\* C12: add called with receiver o and args x, y returns
\* o.a + o.b + x + y of the receiver passed to this call, whatever receiver
\* and callable the call before used.
C12_ThisBinding ==
    WellTypedAdd => call_result = IntAny(ExpectedAdd(call_this.num, call_args))

C12_Witness ==
    /\ WellTypedAdd
    /\ ncalls = 2
    /\ prev_body = "add"
    /\ prev_this.type = "js_object"
    /\ prev_this # call_this
    /\ {"a", "b"} \subseteq DOMAIN ThisObjects[prev_this.num]
    /\ call_result = IntAny(ExpectedAdd(call_this.num, call_args))
    /\ call_result # IntAny(ExpectedAdd(prev_this.num, call_args))

\* C16 as stated: a call without a this value hands the body a global
\* receiver object and an empty argument sequence.
C16_DefaultReceiverIsGlobal ==
    (ncalls > 0 /\ call_this = NoArg) =>
        /\ recv_this.type = "js_object"
        /\ recv_args = <<>>

\* C16 amended: a call without a this value hands the body the empty any
\* as this and an empty argument sequence; a body that uses neither returns
\* its value.
C16_DefaultReceiverIsEmpty ==
    (ncalls > 0 /\ call_this = NoArg) =>
        /\ recv_this = Empty
        /\ recv_args = <<>>
        /\ call_body = "scope" => call_result = Empty

C16_Witness ==
    /\ ncalls > 0
    /\ call_this = NoArg
    /\ call_body = "scope"
    /\ recv_this = Empty
    /\ recv_args = <<>>
    /\ call_result = Empty

-----------------------------------------------------------------------------
(* garbage_collection: js objects allocated from my_heap, linked by        *)
(* __proto__ and by property values, held by local deferred_ptrs and by    *)
(* closures; the collector is deferred_heap::collect.                      *)

\* allocates outside my_heap: the collector never sees the object
make_mut_unmanaged(value) ==
    [state |-> "live", managed |-> FALSE, proto |-> nullptr, prop |-> value]

\* my_heap.make<js_object>(obj): obj may hold one handle as a property value
make(value) ==
    [state |-> "live", managed |-> TRUE, proto |-> nullptr, prop |-> value]

\* the deferred_ptrs outside the heap: locals and the captures of closures
Roots(held, closures) == held \cup {f.ref : f \in {c \in closures : c.kind = "handle"}}

\* the handles an object holds: its __proto__ and its property value
References(hp, h) == {hp[h].proto, hp[h].prop} \ {nullptr}

RECURSIVE mark(_, _)
mark(hp, marked) ==
    LET more == marked \cup UNION {References(hp, h) : h \in marked} IN
    IF more = marked THEN marked ELSE mark(hp, more)

\* collect(): trace from the roots, then deallocate every object of the
\* heap that was not marked
collect(hp, roots) ==
    [h \in HandleSet |->
        IF hp[h].state = "live" /\ hp[h].managed /\ h \notin mark(hp, roots)
        THEN [hp[h] EXCEPT !.state = "freed"]
        ELSE hp[h]]

\* the first handle not yet handed out
NextHandle == CHOOSE k \in 1..Len(Handles) :
                  /\ heap[Handles[k]].state = "unallocated"
                  /\ \A j \in 1..(k - 1) : heap[Handles[j]].state # "unallocated"

\* auto o = make_js_object({...}): the new handle is held by a local
Make(value) ==
    /\ \E h \in HandleSet : heap[h].state = "unallocated"
    /\ value \in locals \cup {nullptr}
    /\ heap' = [heap EXCEPT ![Handles[NextHandle]] = make(value)]
    /\ locals' = locals \cup {Handles[NextHandle]}
    /\ preheap' = heap'
    /\ lastop' = "mutate"
    /\ UNCHANGED <<functions, objvars, foldvars, loopvars, thisvars>>

\* (*o)[key] = value, value a handle
SetPropH(o, value) ==
    /\ o \in locals
    /\ value \in locals
    /\ heap' = [heap EXCEPT ![o].prop = value]
    /\ preheap' = heap'
    /\ lastop' = "mutate"
    /\ UNCHANGED <<locals, functions, objvars, foldvars, loopvars, thisvars>>

\* o->__proto__ = p
SetProtoH(o, p) ==
    /\ o \in locals
    /\ p \in locals
    /\ heap' = [heap EXCEPT ![o].proto = p]
    /\ preheap' = heap'
    /\ lastop' = "mutate"
    /\ UNCHANGED <<locals, functions, objvars, foldvars, loopvars, thisvars>>

\* auto p = any_cast<js_object_ref>((*o)[key]), auto p = o->__proto__:
\* a handle read out of a held object is held by a local
Hold(o, h) ==
    /\ o \in locals
    /\ h \in References(heap, o)
    /\ h \notin locals
    /\ locals' = locals \cup {h}
    /\ lastop' = "mutate"
    /\ UNCHANGED <<heap, preheap, functions, objvars, foldvars, loopvars, thisvars>>

\* a local deferred_ptr goes out of scope
DropLocal(h) ==
    /\ h \in locals
    /\ locals' = locals \ {h}
    /\ lastop' = "mutate"
    /\ UNCHANGED <<heap, preheap, functions, objvars, foldvars, loopvars, thisvars>>

\* functions.push_back(js_function{[h] ...}): the closure holds a copy of
\* the handle
PushClosure(h) ==
    /\ h \in locals
    /\ capture_handle(h) \notin functions
    /\ functions' = functions \cup {capture_handle(h)}
    /\ lastop' = "mutate"
    /\ UNCHANGED <<heap, preheap, locals, objvars, foldvars, loopvars, thisvars>>

\* my_heap.collect()
Collect ==
    /\ heap' = collect(heap, Roots(locals, functions))
    /\ preheap' = heap
    /\ lastop' = "collect"
    /\ UNCHANGED <<locals, functions, objvars, foldvars, loopvars, thisvars>>

NextHeap ==
    \/ \E value \in HandleSet \cup {nullptr} : Make(value)
    \/ \E o, value \in HandleSet : SetPropH(o, value)
    \/ \E o, p \in HandleSet : SetProtoH(o, p)
    \/ \E o, h \in HandleSet : Hold(o, h)
    \/ \E h \in HandleSet : DropLocal(h)
    \/ \E h \in HandleSet : PushClosure(h)
    \/ Collect

InitHeap == IdleObjects /\ IdleFold /\ IdleLoop /\ IdleThis /\ IdleHeap

SpecHeap == InitHeap /\ [][NextHeap]_vars

\* h can be reached from a root of the current state by following
\* __proto__ links and property values of the heap hp
Reachable(hp, h) ==
    \E len \in 1..Len(Handles) : \E path \in [1..len -> HandleSet] :
        /\ path[1] \in Roots(locals, functions)
        /\ path[len] = h
        /\ \A k \in 1..(len - 1) : path[k + 1] \in References(hp, path[k])

\* C13: every object reachable from the held handles and the closures'
\* captures through property values and prototype links is live, every
\* closure's captured object is live, and a collect() leaves each of them
\* as it was.
C13_ReachableStaysLive ==
    /\ \A h \in HandleSet : Reachable(heap, h) => heap[h].state = "live"
    /\ \A f \in functions : heap[f.ref].state = "live"
    /\ lastop = "collect" =>
          \A h \in HandleSet : Reachable(preheap, h) => heap[h] = preheap[h]

C13_Witness ==
    /\ lastop = "collect"
    /\ \E h \in HandleSet : preheap[h].state = "live" /\ heap[h].state = "freed"
    /\ \E f \in functions :
          /\ f.ref \notin locals
          /\ heap[f.ref].state = "live"
          /\ \E h \in References(heap, f.ref) :
                h \notin Roots(locals, functions) /\ heap[h].state = "live"

\* C14: every object that no root reaches when collect() is called is not
\* live afterwards, members of an unreachable cycle included, and every
\* reachable object is untouched.
C14_UnreachableIsReclaimed ==
    lastop = "collect" =>
        \A h \in HandleSet :
            /\ (preheap[h].state = "live" /\ ~Reachable(preheap, h))
                  => heap[h].state # "live"
            /\ Reachable(preheap, h) => heap[h] = preheap[h]

C14_Witness ==
    /\ lastop = "collect"
    /\ preheap["A"].state = "live" /\ preheap["A"].proto = "B"
    /\ preheap["B"].state = "live" /\ preheap["B"].prop = "A"
    /\ Roots(locals, functions) = {"C"}
    /\ heap["A"].state = "freed"
    /\ heap["B"].state = "freed"
    /\ heap["C"] = preheap["C"]
    /\ heap["C"].state = "live"

====
